---- MODULE Spec2Model ----
(***************************************************************************)
(* Google MCP server (src/google_mcp_server_complete.py).                  *)
(*                                                                         *)
(* Two parts of the program are modelled:                                  *)
(*   - GoogleAPIClient: authenticate() and the three lazily built service  *)
(*     handles;                                                            *)
(*   - GoogleMCPServer: list_tools, call_tool (routing, argument binding,  *)
(*     handler execution with its remote calls, the response envelope)     *)
(*     and run().                                                          *)
(* Spec     is the server process: run() authenticates, then serves.       *)
(* SpecAuth is one GoogleAPIClient whose authenticate() is called by       *)
(*          several threads at once.                                       *)
(***************************************************************************)
EXTENDS Integers, Sequences, FiniteSets, TLC

\* Number of tool requests the transport delivers in one run.
MaxRequests == 2

\* Number of threads calling authenticate() concurrently under SpecAuth.
MaxCallers == 2

Range(s) == {s[i] : i \in 1..Len(s)}

(***************************************************************************)
(* JSON argument values, abstracted to what the code can tell apart: the   *)
(* JSON type and, for strings, emptiness (Python truthiness).              *)
(***************************************************************************)
\* Values: "str", "" (the empty string), "int", "bool", "list", "dict".
JsonType(v) ==
  CASE v \in {"str", ""} -> "string"
    [] v = "int" -> "integer"
    [] v = "bool" -> "boolean"
    [] v = "list" -> "array"
    [] v = "dict" -> "object"

\* A well-typed, non-empty value of a JSON type.
Sample(t) ==
  CASE t = "string" -> "str"
    [] t = "integer" -> "int"
    [] t = "boolean" -> "bool"
    [] t = "array" -> "list"
    [] t = "object" -> "dict"

\* A value whose JSON type differs from t.
WrongValue(t) == IF t = "string" THEN "int" ELSE "str"

(***************************************************************************)
(* list_tools: the advertised catalog, in source order.                    *)
(***************************************************************************)
list_tools ==
  << [name |-> "get_document_content",
      properties |-> [document_id |-> "string"],
      required |-> {"document_id"}],
     [name |-> "create_document",
      properties |-> [title |-> "string"],
      required |-> {"title"}],
     [name |-> "update_document_content",
      properties |-> [document_id |-> "string", content |-> "string", start_index |-> "integer"],
      required |-> {"document_id", "content"}],
     [name |-> "append_to_document",
      properties |-> [document_id |-> "string", content |-> "string"],
      required |-> {"document_id", "content"}],
     [name |-> "delete_document_content",
      properties |-> [document_id |-> "string", start_index |-> "integer", end_index |-> "integer"],
      required |-> {"document_id", "start_index", "end_index"}],
     [name |-> "format_document_text",
      properties |-> [document_id |-> "string", start_index |-> "integer", end_index |-> "integer", bold |-> "boolean", italic |-> "boolean", underline |-> "boolean", font_size |-> "integer"],
      required |-> {"document_id", "start_index", "end_index"}],
     [name |-> "delete_document",
      properties |-> [document_id |-> "string"],
      required |-> {"document_id"}],
     [name |-> "get_sheet_data",
      properties |-> [spreadsheet_id |-> "string", range_name |-> "string"],
      required |-> {"spreadsheet_id", "range_name"}],
     [name |-> "create_spreadsheet",
      properties |-> [title |-> "string"],
      required |-> {"title"}],
     [name |-> "update_sheet_data",
      properties |-> [spreadsheet_id |-> "string", range_name |-> "string", values |-> "array"],
      required |-> {"spreadsheet_id", "range_name", "values"}],
     [name |-> "append_sheet_data",
      properties |-> [spreadsheet_id |-> "string", range_name |-> "string", values |-> "array"],
      required |-> {"spreadsheet_id", "range_name", "values"}],
     [name |-> "clear_sheet_range",
      properties |-> [spreadsheet_id |-> "string", range_name |-> "string"],
      required |-> {"spreadsheet_id", "range_name"}],
     [name |-> "add_sheet_rows",
      properties |-> [spreadsheet_id |-> "string", sheet_id |-> "integer", start_index |-> "integer", count |-> "integer"],
      required |-> {"spreadsheet_id", "sheet_id", "start_index", "count"}],
     [name |-> "add_sheet_columns",
      properties |-> [spreadsheet_id |-> "string", sheet_id |-> "integer", start_index |-> "integer", count |-> "integer"],
      required |-> {"spreadsheet_id", "sheet_id", "start_index", "count"}],
     [name |-> "delete_sheet_rows",
      properties |-> [spreadsheet_id |-> "string", sheet_id |-> "integer", start_index |-> "integer", end_index |-> "integer"],
      required |-> {"spreadsheet_id", "sheet_id", "start_index", "end_index"}],
     [name |-> "delete_sheet_columns",
      properties |-> [spreadsheet_id |-> "string", sheet_id |-> "integer", start_index |-> "integer", end_index |-> "integer"],
      required |-> {"spreadsheet_id", "sheet_id", "start_index", "end_index"}],
     [name |-> "format_sheet_cells",
      properties |-> [spreadsheet_id |-> "string", sheet_id |-> "integer", start_row |-> "integer", end_row |-> "integer", start_col |-> "integer", end_col |-> "integer", background_color |-> "object", text_color |-> "object", bold |-> "boolean", italic |-> "boolean"],
      required |-> {"spreadsheet_id", "sheet_id", "start_row", "end_row", "start_col", "end_col"}],
     [name |-> "list_drive_files",
      properties |-> [page_size |-> "integer", query |-> "string", order_by |-> "string"],
      required |-> {}],
     [name |-> "upload_file_to_drive",
      properties |-> [file_path |-> "string", name |-> "string", mime_type |-> "string", folder_id |-> "string"],
      required |-> {"file_path"}],
     [name |-> "delete_drive_file",
      properties |-> [file_id |-> "string"],
      required |-> {"file_id"}],
     [name |-> "share_drive_file",
      properties |-> [file_id |-> "string", email |-> "string", role |-> "string", send_notification |-> "boolean"],
      required |-> {"file_id", "email"}],
     [name |-> "copy_drive_file",
      properties |-> [file_id |-> "string", new_name |-> "string", folder_id |-> "string"],
      required |-> {"file_id", "new_name"}],
     [name |-> "move_drive_file",
      properties |-> [file_id |-> "string", new_folder_id |-> "string", old_folder_id |-> "string"],
      required |-> {"file_id", "new_folder_id"}],
     [name |-> "create_drive_folder",
      properties |-> [name |-> "string", parent_folder_id |-> "string"],
      required |-> {"name"}],
     [name |-> "search_drive_files",
      properties |-> [search_term |-> "string", file_type |-> "string"],
      required |-> {"search_term"}] >>

ToolNames == {list_tools[i].name : i \in 1..Len(list_tools)}

\* The descriptor list_tools advertises under a name.
inputSchema(name) ==
  LET t == CHOOSE d \in Range(list_tools) : d.name = name
  IN  [properties |-> t.properties, required |-> t.required]

(***************************************************************************)
(* call_tool: the if/elif chain from tool name to handler method, a pair   *)
(* <<class, method>>; the final else raises ValueError.                    *)
(***************************************************************************)
NoHandler == <<>>

call_tool_route(name) ==
  CASE name = "get_document_content" -> <<"GoogleDocsTools", "get_document_content">>
    [] name = "create_document" -> <<"GoogleDocsTools", "create_document">>
    [] name = "update_document_content" -> <<"GoogleDocsTools", "update_document_content">>
    [] name = "append_to_document" -> <<"GoogleDocsTools", "append_to_document">>
    [] name = "delete_document_content" -> <<"GoogleDocsTools", "delete_document_content">>
    [] name = "format_document_text" -> <<"GoogleDocsTools", "format_document_text">>
    [] name = "delete_document" -> <<"GoogleDocsTools", "delete_document">>
    [] name = "get_sheet_data" -> <<"GoogleSheetsTools", "get_sheet_data">>
    [] name = "create_spreadsheet" -> <<"GoogleSheetsTools", "create_spreadsheet">>
    [] name = "update_sheet_data" -> <<"GoogleSheetsTools", "update_sheet_data">>
    [] name = "append_sheet_data" -> <<"GoogleSheetsTools", "append_sheet_data">>
    [] name = "clear_sheet_range" -> <<"GoogleSheetsTools", "clear_sheet_range">>
    [] name = "add_sheet_rows" -> <<"GoogleSheetsTools", "add_sheet_rows">>
    [] name = "add_sheet_columns" -> <<"GoogleSheetsTools", "add_sheet_columns">>
    [] name = "delete_sheet_rows" -> <<"GoogleSheetsTools", "delete_sheet_rows">>
    [] name = "delete_sheet_columns" -> <<"GoogleSheetsTools", "delete_sheet_columns">>
    [] name = "format_sheet_cells" -> <<"GoogleSheetsTools", "format_sheet_cells">>
    [] name = "list_drive_files" -> <<"GoogleDriveTools", "list_drive_files">>
    [] name = "upload_file_to_drive" -> <<"GoogleDriveTools", "upload_file_to_drive">>
    [] name = "delete_drive_file" -> <<"GoogleDriveTools", "delete_drive_file">>
    [] name = "share_drive_file" -> <<"GoogleDriveTools", "share_drive_file">>
    [] name = "copy_drive_file" -> <<"GoogleDriveTools", "copy_drive_file">>
    [] name = "move_drive_file" -> <<"GoogleDriveTools", "move_drive_file">>
    [] name = "create_drive_folder" -> <<"GoogleDriveTools", "create_drive_folder">>
    [] name = "search_drive_files" -> <<"GoogleDriveTools", "search_drive_files">>
    [] OTHER -> NoHandler

\* The names the chain compares against (lines 1511-1563).
call_tool_names ==
  {"get_document_content",
   "create_document",
   "update_document_content",
   "append_to_document",
   "delete_document_content",
   "format_document_text",
   "delete_document",
   "get_sheet_data",
   "create_spreadsheet",
   "update_sheet_data",
   "append_sheet_data",
   "clear_sheet_range",
   "add_sheet_rows",
   "add_sheet_columns",
   "delete_sheet_rows",
   "delete_sheet_columns",
   "format_sheet_cells",
   "list_drive_files",
   "upload_file_to_drive",
   "delete_drive_file",
   "share_drive_file",
   "copy_drive_file",
   "move_drive_file",
   "create_drive_folder",
   "search_drive_files"}

\* Handler signatures: parameter names in order; the first nreq have no default.
Signature(h) ==
  CASE h = <<"GoogleDocsTools", "get_document_content">> ->
         [params |-> <<"document_id">>, nreq |-> 1]
    [] h = <<"GoogleDocsTools", "create_document">> ->
         [params |-> <<"title">>, nreq |-> 1]
    [] h = <<"GoogleDocsTools", "update_document_content">> ->
         [params |-> <<"document_id", "content", "start_index">>, nreq |-> 2]
    [] h = <<"GoogleDocsTools", "append_to_document">> ->
         [params |-> <<"document_id", "content">>, nreq |-> 2]
    [] h = <<"GoogleDocsTools", "delete_document_content">> ->
         [params |-> <<"document_id", "start_index", "end_index">>, nreq |-> 3]
    [] h = <<"GoogleDocsTools", "format_document_text">> ->
         [params |-> <<"document_id", "start_index", "end_index", "bold", "italic", "underline", "font_size">>, nreq |-> 3]
    [] h = <<"GoogleDocsTools", "delete_document">> ->
         [params |-> <<"document_id">>, nreq |-> 1]
    [] h = <<"GoogleSheetsTools", "get_sheet_data">> ->
         [params |-> <<"spreadsheet_id", "range_name">>, nreq |-> 2]
    [] h = <<"GoogleSheetsTools", "create_spreadsheet">> ->
         [params |-> <<"title">>, nreq |-> 1]
    [] h = <<"GoogleSheetsTools", "update_sheet_data">> ->
         [params |-> <<"spreadsheet_id", "range_name", "values">>, nreq |-> 3]
    [] h = <<"GoogleSheetsTools", "append_sheet_data">> ->
         [params |-> <<"spreadsheet_id", "range_name", "values">>, nreq |-> 3]
    [] h = <<"GoogleSheetsTools", "clear_sheet_range">> ->
         [params |-> <<"spreadsheet_id", "range_name">>, nreq |-> 2]
    [] h = <<"GoogleSheetsTools", "add_sheet_rows">> ->
         [params |-> <<"spreadsheet_id", "sheet_id", "start_index", "count">>, nreq |-> 4]
    [] h = <<"GoogleSheetsTools", "add_sheet_columns">> ->
         [params |-> <<"spreadsheet_id", "sheet_id", "start_index", "count">>, nreq |-> 4]
    [] h = <<"GoogleSheetsTools", "delete_sheet_rows">> ->
         [params |-> <<"spreadsheet_id", "sheet_id", "start_index", "end_index">>, nreq |-> 4]
    [] h = <<"GoogleSheetsTools", "delete_sheet_columns">> ->
         [params |-> <<"spreadsheet_id", "sheet_id", "start_index", "end_index">>, nreq |-> 4]
    [] h = <<"GoogleSheetsTools", "format_sheet_cells">> ->
         [params |-> <<"spreadsheet_id", "sheet_id", "start_row", "end_row", "start_col", "end_col", "background_color", "text_color", "bold", "italic">>, nreq |-> 6]
    [] h = <<"GoogleDriveTools", "list_drive_files">> ->
         [params |-> <<"page_size", "query", "order_by">>, nreq |-> 0]
    [] h = <<"GoogleDriveTools", "upload_file_to_drive">> ->
         [params |-> <<"file_path", "name", "mime_type", "folder_id">>, nreq |-> 1]
    [] h = <<"GoogleDriveTools", "delete_drive_file">> ->
         [params |-> <<"file_id">>, nreq |-> 1]
    [] h = <<"GoogleDriveTools", "share_drive_file">> ->
         [params |-> <<"file_id", "email", "role", "send_notification">>, nreq |-> 2]
    [] h = <<"GoogleDriveTools", "copy_drive_file">> ->
         [params |-> <<"file_id", "new_name", "folder_id">>, nreq |-> 2]
    [] h = <<"GoogleDriveTools", "move_drive_file">> ->
         [params |-> <<"file_id", "new_folder_id", "old_folder_id">>, nreq |-> 2]
    [] h = <<"GoogleDriveTools", "create_drive_folder">> ->
         [params |-> <<"name", "parent_folder_id">>, nreq |-> 1]
    [] h = <<"GoogleDriveTools", "search_drive_files">> ->
         [params |-> <<"search_term", "file_type">>, nreq |-> 1]

\* The text each handler puts before str(e) when it re-raises an HttpError.
FailPrefix(h) ==
  CASE h = <<"GoogleDocsTools", "get_document_content">> -> "Failed to retrieve document: "
    [] h = <<"GoogleDocsTools", "create_document">> -> "Failed to create document: "
    [] h = <<"GoogleDocsTools", "update_document_content">> -> "Failed to update document: "
    [] h = <<"GoogleDocsTools", "append_to_document">> -> "Failed to append to document: "
    [] h = <<"GoogleDocsTools", "delete_document_content">> -> "Failed to delete content: "
    [] h = <<"GoogleDocsTools", "format_document_text">> -> "Failed to format text: "
    [] h = <<"GoogleDocsTools", "delete_document">> -> "Failed to delete document: "
    [] h = <<"GoogleSheetsTools", "get_sheet_data">> -> "Failed to get sheet data: "
    [] h = <<"GoogleSheetsTools", "create_spreadsheet">> -> "Failed to create spreadsheet: "
    [] h = <<"GoogleSheetsTools", "update_sheet_data">> -> "Failed to update sheet data: "
    [] h = <<"GoogleSheetsTools", "append_sheet_data">> -> "Failed to append sheet data: "
    [] h = <<"GoogleSheetsTools", "clear_sheet_range">> -> "Failed to clear range: "
    [] h = <<"GoogleSheetsTools", "add_sheet_rows">> -> "Failed to add rows: "
    [] h = <<"GoogleSheetsTools", "add_sheet_columns">> -> "Failed to add columns: "
    [] h = <<"GoogleSheetsTools", "delete_sheet_rows">> -> "Failed to delete rows: "
    [] h = <<"GoogleSheetsTools", "delete_sheet_columns">> -> "Failed to delete columns: "
    [] h = <<"GoogleSheetsTools", "format_sheet_cells">> -> "Failed to format cells: "
    [] h = <<"GoogleDriveTools", "list_drive_files">> -> "Failed to list files: "
    [] h = <<"GoogleDriveTools", "upload_file_to_drive">> -> "Failed to upload file: "
    [] h = <<"GoogleDriveTools", "delete_drive_file">> -> "Failed to delete file: "
    [] h = <<"GoogleDriveTools", "share_drive_file">> -> "Failed to share file: "
    [] h = <<"GoogleDriveTools", "copy_drive_file">> -> "Failed to copy file: "
    [] h = <<"GoogleDriveTools", "move_drive_file">> -> "Failed to move file: "
    [] h = <<"GoogleDriveTools", "create_drive_folder">> -> "Failed to create folder: "
    [] h = <<"GoogleDriveTools", "search_drive_files">> -> "Failed to search files: "

\* Keys of the dict each handler returns on success.
ResultFields(h) ==
  CASE h = <<"GoogleDocsTools", "get_document_content">> ->
         {"title", "document_id", "content", "revision_id"}
    [] h = <<"GoogleDocsTools", "create_document">> ->
         {"document_id", "title", "url"}
    [] h = <<"GoogleDocsTools", "update_document_content">> ->
         {"document_id", "status", "replies"}
    [] h = <<"GoogleDocsTools", "append_to_document">> ->
         {"document_id", "status", "appended_at_index"}
    [] h = <<"GoogleDocsTools", "delete_document_content">> ->
         {"document_id", "status", "deleted_range"}
    [] h = <<"GoogleDocsTools", "format_document_text">> ->
         {"document_id", "status", "formatted_range", "applied_styles"}
    [] h = <<"GoogleDocsTools", "delete_document">> ->
         {"document_id", "status", "timestamp"}
    [] h = <<"GoogleSheetsTools", "get_sheet_data">> ->
         {"spreadsheet_id", "range", "values", "row_count"}
    [] h = <<"GoogleSheetsTools", "create_spreadsheet">> ->
         {"spreadsheet_id", "title", "url"}
    [] h = <<"GoogleSheetsTools", "update_sheet_data">> ->
         {"spreadsheet_id", "updated_range", "updated_rows", "updated_columns", "updated_cells"}
    [] h = <<"GoogleSheetsTools", "append_sheet_data">> ->
         {"spreadsheet_id", "updated_range", "updated_rows", "updated_cells"}
    [] h = <<"GoogleSheetsTools", "clear_sheet_range">> ->
         {"spreadsheet_id", "cleared_range", "status"}
    [] h = <<"GoogleSheetsTools", "add_sheet_rows">> ->
         {"spreadsheet_id", "sheet_id", "rows_inserted", "start_index", "status"}
    [] h = <<"GoogleSheetsTools", "add_sheet_columns">> ->
         {"spreadsheet_id", "sheet_id", "columns_inserted", "start_index", "status"}
    [] h = <<"GoogleSheetsTools", "delete_sheet_rows">> ->
         {"spreadsheet_id", "sheet_id", "rows_deleted", "status"}
    [] h = <<"GoogleSheetsTools", "delete_sheet_columns">> ->
         {"spreadsheet_id", "sheet_id", "columns_deleted", "status"}
    [] h = <<"GoogleSheetsTools", "format_sheet_cells">> ->
         {"spreadsheet_id", "sheet_id", "formatted_range", "status"}
    [] h = <<"GoogleDriveTools", "list_drive_files">> ->
         {"file_count", "files", "next_page_token"}
    [] h = <<"GoogleDriveTools", "upload_file_to_drive">> ->
         {"file_id", "name", "mime_type", "url", "status"}
    [] h = <<"GoogleDriveTools", "delete_drive_file">> ->
         {"file_id", "status", "timestamp"}
    [] h = <<"GoogleDriveTools", "share_drive_file">> ->
         {"file_id", "permission_id", "shared_with", "role", "status"}
    [] h = <<"GoogleDriveTools", "copy_drive_file">> ->
         {"original_file_id", "copied_file_id", "name", "url", "status"}
    [] h = <<"GoogleDriveTools", "move_drive_file">> ->
         {"file_id", "name", "new_parent", "status"}
    [] h = <<"GoogleDriveTools", "create_drive_folder">> ->
         {"folder_id", "name", "url", "status"}
    [] h = <<"GoogleDriveTools", "search_drive_files">> ->
         {"search_term", "result_count", "files"}

(***************************************************************************)
(* Handler bodies.  A handler receives its parameters (a), runs local      *)
(* Python code, issues its remote calls in order and builds its result.    *)
(***************************************************************************)
\* Defaults of the handlers' optional parameters ("None" is Python's None).
Default(h, k) ==
  CASE h = <<"GoogleDocsTools", "update_document_content">> /\ k = "start_index" -> "int"
    [] h = <<"GoogleDriveTools", "list_drive_files">> /\ k = "page_size" -> "int"
    [] h = <<"GoogleDriveTools", "list_drive_files">> /\ k = "order_by" -> "str"
    [] h = <<"GoogleDriveTools", "share_drive_file">> /\ k = "role" -> "str"
    [] h = <<"GoogleDriveTools", "share_drive_file">> /\ k = "send_notification" -> "bool"
    [] OTHER -> "None"

\* Python truthiness of a parameter value.
IsTrue(v) == v \notin {"", "None"}

\* x + y and x - y raise TypeError unless the operand types fit.
CanAdd(x, y) ==
  \/ {x, y} \subseteq {"int", "bool"}
  \/ {x, y} \subseteq {"str", ""}
  \/ {x, y} \subseteq {"list"}

CanSub(x, y) == {x, y} \subseteq {"int", "bool"}

\* One remote call: the service family, the API method, the parameter values
\* the handler forwards into it.
Call(svc, op, a, ks) ==
  [svc |-> svc, op |-> op, sent |-> [k \in {j \in ks : a[j] # "None"} |-> a[k]]]

\* The parameters among ks that the handler forwards only when truthy.
IfSet(a, ks) == {k \in ks : IsTrue(a[k])}

\* The remote calls a handler issues, in order, when none of them fails.
RemoteCalls(h, a) ==
  CASE h = <<"GoogleDocsTools", "get_document_content">> ->
         <<Call("docs", "documents.get", a, {"document_id"})>>
    [] h = <<"GoogleDocsTools", "create_document">> ->
         <<Call("docs", "documents.create", a, {"title"})>>
    [] h = <<"GoogleDocsTools", "update_document_content">> ->
         <<Call("docs", "documents.batchUpdate", a,
                {"document_id", "content", "start_index"})>>
    [] h = <<"GoogleDocsTools", "append_to_document">> ->
         <<Call("docs", "documents.get", a, {"document_id"}),
           Call("docs", "documents.batchUpdate", a, {"document_id", "content"})>>
    [] h = <<"GoogleDocsTools", "delete_document_content">> ->
         <<Call("docs", "documents.batchUpdate", a,
                {"document_id", "start_index", "end_index"})>>
    [] h = <<"GoogleDocsTools", "format_document_text">> ->
         <<Call("docs", "documents.batchUpdate", a,
                {"document_id", "start_index", "end_index", "bold", "italic",
                 "underline", "font_size"})>>
    [] h = <<"GoogleDocsTools", "delete_document">> ->
         <<Call("drive", "files.delete", a, {"document_id"})>>
    [] h = <<"GoogleSheetsTools", "get_sheet_data">> ->
         <<Call("sheets", "values.get", a, {"spreadsheet_id", "range_name"})>>
    [] h = <<"GoogleSheetsTools", "create_spreadsheet">> ->
         <<Call("sheets", "spreadsheets.create", a, {"title"})>>
    [] h = <<"GoogleSheetsTools", "update_sheet_data">> ->
         <<Call("sheets", "values.update", a,
                {"spreadsheet_id", "range_name", "values"})>>
    [] h = <<"GoogleSheetsTools", "append_sheet_data">> ->
         <<Call("sheets", "values.append", a,
                {"spreadsheet_id", "range_name", "values"})>>
    [] h = <<"GoogleSheetsTools", "clear_sheet_range">> ->
         <<Call("sheets", "values.clear", a, {"spreadsheet_id", "range_name"})>>
    [] h = <<"GoogleSheetsTools", "add_sheet_rows">> ->
         <<Call("sheets", "spreadsheets.batchUpdate", a,
                {"spreadsheet_id", "sheet_id", "start_index", "count"})>>
    [] h = <<"GoogleSheetsTools", "add_sheet_columns">> ->
         <<Call("sheets", "spreadsheets.batchUpdate", a,
                {"spreadsheet_id", "sheet_id", "start_index", "count"})>>
    [] h = <<"GoogleSheetsTools", "delete_sheet_rows">> ->
         <<Call("sheets", "spreadsheets.batchUpdate", a,
                {"spreadsheet_id", "sheet_id", "start_index", "end_index"})>>
    [] h = <<"GoogleSheetsTools", "delete_sheet_columns">> ->
         <<Call("sheets", "spreadsheets.batchUpdate", a,
                {"spreadsheet_id", "sheet_id", "start_index", "end_index"})>>
    [] h = <<"GoogleSheetsTools", "format_sheet_cells">> ->
         <<Call("sheets", "spreadsheets.batchUpdate", a,
                {"spreadsheet_id", "sheet_id", "start_row", "end_row",
                 "start_col", "end_col", "bold", "italic"}
                \cup IfSet(a, {"background_color", "text_color"}))>>
    [] h = <<"GoogleDriveTools", "list_drive_files">> ->
         <<Call("drive", "files.list", a, {"page_size", "query", "order_by"})>>
    [] h = <<"GoogleDriveTools", "upload_file_to_drive">> ->
         <<Call("drive", "files.create", a,
                {"file_path", "mime_type"} \cup IfSet(a, {"name", "folder_id"}))>>
    [] h = <<"GoogleDriveTools", "delete_drive_file">> ->
         <<Call("drive", "files.delete", a, {"file_id"})>>
    [] h = <<"GoogleDriveTools", "share_drive_file">> ->
         <<Call("drive", "permissions.create", a,
                {"file_id", "email", "role", "send_notification"})>>
    [] h = <<"GoogleDriveTools", "copy_drive_file">> ->
         <<Call("drive", "files.copy", a,
                {"file_id", "new_name"} \cup IfSet(a, {"folder_id"}))>>
    [] h = <<"GoogleDriveTools", "move_drive_file">> ->
         IF ~IsTrue(a["old_folder_id"])
         THEN <<Call("drive", "files.get", a, {"file_id"}),
                Call("drive", "files.update", a, {"file_id", "new_folder_id"})>>
         ELSE <<Call("drive", "files.update", a,
                     {"file_id", "new_folder_id", "old_folder_id"})>>
    [] h = <<"GoogleDriveTools", "create_drive_folder">> ->
         <<Call("drive", "files.create", a,
                {"name"} \cup IfSet(a, {"parent_folder_id"}))>>
    [] h = <<"GoogleDriveTools", "search_drive_files">> ->
         <<Call("drive", "files.list", a,
                {"search_term"} \cup IfSet(a, {"file_type"}))>>

\* Local Python code before the first remote call that raises TypeError:
\* start_index + count (add_sheet_rows/columns), os.path.basename(file_path).
PreError(h, a) ==
  CASE h \in {<<"GoogleSheetsTools", "add_sheet_rows">>, <<"GoogleSheetsTools", "add_sheet_columns">>} ->
         ~CanAdd(a["start_index"], a["count"])
    [] h = <<"GoogleDriveTools", "upload_file_to_drive">> ->
         ~IsTrue(a["name"]) /\ a["file_path"] \notin {"str", ""}
    [] OTHER -> FALSE

\* Local Python code after the last remote call that raises TypeError:
\* end_index - start_index (delete_sheet_rows/columns).
PostError(h, a) ==
  CASE h \in {<<"GoogleSheetsTools", "delete_sheet_rows">>, <<"GoogleSheetsTools", "delete_sheet_columns">>} ->
         ~CanSub(a["end_index"], a["start_index"])
    [] OTHER -> FALSE

(***************************************************************************)
(* What a remote call returns, as far as a handler looks into it: a        *)
(* Python dict with or without its 'body' key and with or without a list   *)
(* under 'content' (a document) or 'parents' (a file); a list element is   *)
(* <<>> (no 'endIndex' key) or <<n>>; a parent is a folder id.             *)
(***************************************************************************)
Response(kind, body, list) == [kind |-> kind, body |-> body, list |-> list]

\* A response no handler code looks into before its next remote call.
Opaque == Response("opaque", TRUE, <<>>)

\* documents().get(...).execute() as append_to_document may see it.
Documents ==
  {Response("document", FALSE, <<>>), Response("document", TRUE, <<>>)} \cup
  {Response("document", TRUE, <<c>>) :
     c \in {<<>>, << <<>> >>, << <<12>> >>, << <<1>>, <<7>> >>, << <<7>>, <<>> >>}}

\* files().get(fileId, fields='parents').execute() as move_drive_file may see it.
Files ==
  {Response("file", TRUE, <<>>)} \cup
  {Response("file", TRUE, <<ps>>) : ps \in {<<>>, <<"p1">>, <<"p1", "p2">>}}

\* The responses the remote service may give to the call a handler made.
Responses(h, call) ==
  IF h = <<"GoogleDocsTools", "append_to_document">> /\ call.op = "documents.get"
  THEN Documents
  ELSE IF h = <<"GoogleDriveTools", "move_drive_file">> /\ call.op = "files.get"
  THEN Files
  ELSE {Opaque}

\* line 242: document.get('body', {}).get('content', [{}])
content(document) ==
  IF document.body /\ document.list # <<>> THEN document.list[1] ELSE << <<>> >>

\* A bug append_to_document could have: the text is inserted at the endIndex
\* itself, one past the last position of the body.
end_indexNoOffset(document) ==
  LET last == content(document)[Len(content(document))]
  IN  IF last = <<>> THEN 1 ELSE last[1]

\* line 242: content[-1].get('endIndex', 1) - 1, for a list that is not empty.
end_index(document) ==
  LET last == content(document)[Len(content(document))]
  IN  (IF last = <<>> THEN 1 ELSE last[1]) - 1

\* line 1043: file.get('parents', [])
parents(file) == IF file.list # <<>> THEN file.list[1] ELSE <<>>

\* sep.join(xs), as the list of its text pieces ('' is the empty list).
RECURSIVE Join(_, _)
Join(sep, xs) ==
  IF Len(xs) <= 1 THEN xs
  ELSE Join(sep, SubSeq(xs, 1, Len(xs) - 1)) \o <<sep, xs[Len(xs)]>>

\* Local Python code between two remote calls that raises: [][-1] on an
\* empty content list (append_to_document, line 242).
MidError(h, resp) ==
  h = <<"GoogleDocsTools", "append_to_document">> /\ content(resp) = <<>>

\* The call with one more value forwarded into it.
Forward(call, k, v) ==
  [call EXCEPT !.sent = [j \in DOMAIN call.sent \cup {k} |->
                           IF j = k THEN v ELSE call.sent[j]]]

\* A bug move_drive_file could have: only the first of the current parents is
\* removed.
NextCallFirstParent(h, call, resp) ==
  IF h = <<"GoogleDocsTools", "append_to_document">>
  THEN Forward(call, "end_index", end_index(resp))
  ELSE IF h = <<"GoogleDriveTools", "move_drive_file">>
  THEN Forward(call, "old_folder_id",
               IF parents(resp) = <<>> THEN <<>> ELSE <<parents(resp)[1]>>)
  ELSE call

\* The handler's next remote call, with what the handler computed from the
\* response to the one before (the locals end_index, line 242, and
\* old_folder_id, line 1043).
NextCall(h, call, resp) ==
  IF h = <<"GoogleDocsTools", "append_to_document">>
  THEN Forward(call, "end_index", end_index(resp))
  ELSE IF h = <<"GoogleDriveTools", "move_drive_file">>
  THEN Forward(call, "old_folder_id", Join(",", parents(resp)))
  ELSE call

\* The handler reads a local file before its remote call (MediaFileUpload).
ReadsLocalFile(h) == h = <<"GoogleDriveTools", "upload_file_to_drive">>

(***************************************************************************)
(* State.                                                                  *)
(***************************************************************************)
VARIABLES
  creds,      \* GoogleAPIClient.creds: 0 (None) or a reference into heap
  heap,       \* the Credentials objects created so far, by reference
  svc,        \* _docs_service, _sheets_service, _drive_service
  tokenFile,  \* the file at token_path
  credFile,   \* whether the file at credentials_path exists
  issued,     \* the access tokens the authorization server has issued so far
  apc,        \* where each caller of authenticate() stands
  aobj,       \* the Credentials object each caller's refresh() was called on
  nRefresh,   \* refresh exchanges started so far
  nFlow,      \* interactive authorization flows started so far
  file0,      \* the token file as it was at construction
  ret,        \* the access token in self.creds when each caller returned
  nextId,     \* tool requests received so far
  pending,    \* requests received and not yet dispatched to call_tool
  cur,        \* the call_tool invocation the event loop is running
  nresp,      \* responses written to the transport, per request
  nBuild,     \* calls of googleapiclient.discovery.build() so far, per family
  catalog,    \* the names of the descriptors in the list list_tools returns
  server      \* GoogleMCPServer(): "none" before __init__, then "constructed";
              \* "exited" once an exception has left run() and main()

vars == <<creds, heap, svc, tokenFile, credFile, issued, apc, aobj, nRefresh,
          nFlow, file0, ret, nextId, pending, cur, nresp, nBuild,
          catalog, server>>

authVars == <<creds, heap, tokenFile, credFile, issued, apc, aobj, nRefresh,
              nFlow, file0, ret>>

serveVars == <<svc, nextId, pending, cur, nresp, nBuild>>

regVars == <<catalog, server>>

\* run() calls authenticate() as caller 0; threads 1..MaxCallers exist only
\* under SpecAuth.
Main == 0
Threads == 1..MaxCallers
Callers == {Main} \cup Threads
Requests == 1..MaxRequests
Families == {"docs", "sheets", "drive"}

(***************************************************************************)
(* Credentials (google.oauth2.credentials.Credentials) as the program      *)
(* uses them: token, expired, refresh_token, scopes; valid is derived.     *)
(***************************************************************************)
\* SCOPES (module constant): the scopes the program asks for; a token file
\* left by another program may record other scopes.
SCOPES == "SCOPES"
OtherScopes == "OTHER"

Valid(o) == o.token # 0 /\ ~o.expired

\* A bug the serialisation could have: the refresh token is left out.
ToJsonNoRefresh(o) ==
  [token |-> o.token, expired |-> o.expired, refresh_token |-> FALSE,
   scopes |-> o.scopes]

\* Credentials.to_json(): the record written to the token file.
ToJson(o) ==
  [token |-> o.token, expired |-> o.expired, refresh_token |-> o.refresh,
   scopes |-> o.scopes]

\* Credentials.from_authorized_user_file(self.token_path, SCOPES): the object
\* made from the record; the scopes passed replace the recorded ones.
FromFile(j) ==
  [token |-> j.token, expired |-> j.expired, refresh |-> j.refresh_token,
   scopes |-> SCOPES]

NoFile == [exists |-> FALSE, data |-> <<>>]
Truncated == [exists |-> TRUE, data |-> <<>>]
FileWith(j) == [exists |-> TRUE, data |-> <<j>>]

NoHandle == [id |-> 0, creds |-> 0]

\* A Python exception: its class and str(e), a list of text pieces.
Exc(class, text) == [class |-> class, text |-> text]

NoExc == Exc("", <<>>)

\* No call_tool invocation is running.
Idle ==
  [id |-> 0, name |-> "", args |-> <<>>, h |-> NoHandler, pc |-> "idle",
   invoked |-> FALSE, calls |-> <<>>, via |-> <<>>, got |-> <<>>, built |-> {},
   raised |-> NoExc, response |-> <<>>]

\* GoogleAPIClient.__init__ and GoogleMCPServer.__init__; the files are as
\* the environment left them.
InitClient ==
  /\ creds = 0
  /\ heap = <<>>
  /\ svc = [f \in Families |-> NoHandle]
  /\ tokenFile \in {NoFile} \cup
                   {FileWith([token |-> 1, expired |-> e, refresh_token |-> r,
                              scopes |-> sc]) :
                      e \in BOOLEAN, r \in BOOLEAN, sc \in {SCOPES, OtherScopes}}
  /\ credFile \in BOOLEAN
  /\ issued = 1
  /\ aobj = [c \in Callers |-> 0]
  /\ nRefresh = 0
  /\ nFlow = 0
  /\ file0 = tokenFile
  /\ ret = [c \in Callers |-> 0]
  /\ nextId = 0
  /\ pending = {}
  /\ cur = Idle
  /\ nresp = [r \in Requests |-> 0]
  /\ nBuild = [f \in Families |-> 0]

\* The names of the descriptors of list_tools, in the order of the list.
CatalogOf(tools) == [i \in 1..Len(tools) |-> tools[i].name]

Init ==
  /\ InitClient
  /\ apc = [c \in Callers |-> IF c = Main THEN "start" ELSE "off"]
  /\ catalog = CatalogOf(list_tools)
  /\ server = "constructed"

InitAuth ==
  /\ InitClient
  /\ apc = [c \in Callers |-> IF c = Main THEN "off" ELSE "start"]
  /\ catalog = CatalogOf(list_tools)
  /\ server = "constructed"

(***************************************************************************)
(* GoogleAPIClient.authenticate(), one action per statement that reads or  *)
(* writes shared state or blocks.                                          *)
(***************************************************************************)
Goto(c, l) == apc' = [apc EXCEPT ![c] = l]

\* line 79: os.path.exists(self.token_path)
AuthExists(c) ==
  /\ apc[c] = "start"
  /\ Goto(c, IF tokenFile.exists THEN "load" ELSE "check")
  /\ UNCHANGED <<creds, heap, tokenFile, credFile, issued, aobj, nRefresh,
                 nFlow, file0, ret>>

\* line 80: self.creds = Credentials.from_authorized_user_file(...); a file
\* another caller has opened for writing and not yet written is empty and
\* does not parse.
AuthLoad(c) ==
  /\ apc[c] = "load"
  /\ IF tokenFile.data = <<>>
     THEN /\ Goto(c, "raised")
          /\ UNCHANGED <<creds, heap>>
     ELSE /\ heap' = Append(heap, FromFile(tokenFile.data[1]))
          /\ creds' = Len(heap) + 1
          /\ Goto(c, "check")
  /\ UNCHANGED <<tokenFile, credFile, issued, aobj, nRefresh, nFlow, file0, ret>>

\* A bug the test of line 82 could have: a valid credential is not accepted.
NeedsAuthAlways == TRUE

\* line 82: if not self.creds or not self.creds.valid
NeedsAuth == creds = 0 \/ ~Valid(heap[creds])

\* A bug the test of line 83 could have: the refresh token is not looked at.
CanRefreshIgnoringToken == creds # 0 /\ heap[creds].expired

\* line 83: if self.creds and self.creds.expired and self.creds.refresh_token
CanRefresh == creds # 0 /\ heap[creds].expired /\ heap[creds].refresh

\* lines 82, 100: a valid credential skips to the log line and returns.
AuthCheck(c) ==
  /\ apc[c] = "check"
  /\ IF NeedsAuth
     THEN /\ Goto(c, "branch")
          /\ UNCHANGED ret
     ELSE /\ Goto(c, "returned")
          /\ ret' = [ret EXCEPT ![c] = heap[creds].token]
  /\ UNCHANGED <<creds, heap, tokenFile, credFile, issued, aobj, nRefresh,
                 nFlow, file0>>

\* lines 83-84: self.creds.refresh(Request()) starts: the exchange is in flight.
AuthRefreshBegin(c) ==
  /\ apc[c] = "branch"
  /\ CanRefresh
  /\ aobj' = [aobj EXCEPT ![c] = creds]
  /\ nRefresh' = nRefresh + 1
  /\ Goto(c, "refreshing")
  /\ UNCHANGED <<creds, heap, tokenFile, credFile, issued, nFlow, file0, ret>>

\* line 84 returns: the object refresh() was called on holds a new token; or
\* refresh() raises RefreshError and the object is as it was.
AuthRefreshEnd(c, ok) ==
  /\ apc[c] = "refreshing"
  /\ IF ok
     THEN /\ issued' = issued + 1
          /\ heap' = [heap EXCEPT ![aobj[c]] =
                        [token |-> issued + 1, expired |-> FALSE, refresh |-> TRUE,
                         scopes |-> heap[aobj[c]].scopes]]
          /\ Goto(c, "save")
     ELSE /\ Goto(c, "raised")
          /\ UNCHANGED <<issued, heap>>
  /\ UNCHANGED <<creds, tokenFile, credFile, aobj, nRefresh, nFlow, file0, ret>>

\* lines 86-90: no client secrets file: raise FileNotFoundError.
AuthNoCredentialsFile(c) ==
  /\ apc[c] = "branch"
  /\ ~CanRefresh
  /\ ~credFile
  /\ Goto(c, "raised")
  /\ UNCHANGED <<creds, heap, tokenFile, credFile, issued, aobj, nRefresh,
                 nFlow, file0, ret>>

\* A bug authenticate could have: no check that the client secrets file exists.
AuthFlowBeginUnchecked(c) ==
  /\ apc[c] = "branch"
  /\ ~CanRefresh
  /\ nFlow' = nFlow + 1
  /\ Goto(c, "flowing")
  /\ UNCHANGED <<creds, heap, tokenFile, credFile, issued, aobj, nRefresh,
                 file0, ret>>

\* lines 91-94: flow.run_local_server(port=0) starts.
AuthFlowBegin(c) ==
  /\ apc[c] = "branch"
  /\ ~CanRefresh
  /\ credFile
  /\ nFlow' = nFlow + 1
  /\ Goto(c, "flowing")
  /\ UNCHANGED <<creds, heap, tokenFile, credFile, issued, aobj, nRefresh,
                 file0, ret>>

\* line 94: self.creds = <the flow's credential>; or the flow raises.
AuthFlowEnd(c, ok) ==
  /\ apc[c] = "flowing"
  /\ IF ok
     THEN /\ issued' = issued + 1
          /\ heap' = Append(heap, [token |-> issued + 1, expired |-> FALSE,
                                   refresh |-> TRUE, scopes |-> SCOPES])
          /\ creds' = Len(heap) + 1
          /\ Goto(c, "save")
     ELSE /\ Goto(c, "raised")
          /\ UNCHANGED <<issued, heap, creds>>
  /\ UNCHANGED <<tokenFile, credFile, aobj, nRefresh, nFlow, file0, ret>>

\* line 97: open(self.token_path, 'w') creates or truncates the file.
AuthOpen(c) ==
  /\ apc[c] = "save"
  /\ tokenFile' = Truncated
  /\ Goto(c, "write")
  /\ UNCHANGED <<creds, heap, credFile, issued, aobj, nRefresh, nFlow, file0, ret>>

\* lines 98-100: token.write(self.creds.to_json()), close, log, return.
AuthWrite(c) ==
  /\ apc[c] = "write"
  /\ tokenFile' = FileWith(ToJson(heap[creds]))
  /\ ret' = [ret EXCEPT ![c] = heap[creds].token]
  /\ Goto(c, "returned")
  /\ UNCHANGED <<creds, heap, credFile, issued, aobj, nRefresh, nFlow, file0>>

authenticate(c) ==
  /\ \/ AuthExists(c)
     \/ AuthLoad(c)
     \/ AuthCheck(c)
     \/ AuthRefreshBegin(c)
     \/ \E ok \in BOOLEAN : AuthRefreshEnd(c, ok)
     \/ AuthNoCredentialsFile(c)
     \/ AuthFlowBegin(c)
     \/ \E ok \in BOOLEAN : AuthFlowEnd(c, ok)
     \/ AuthOpen(c)
     \/ AuthWrite(c)
  /\ UNCHANGED serveVars
  /\ UNCHANGED regVars

NextAuth == \E c \in Threads : authenticate(c)

SpecAuth == InitAuth /\ [][NextAuth]_vars

(***************************************************************************)
(* Requests: the tool names and argument mappings a caller may send.       *)
(***************************************************************************)
\* Names no tool has.
UnknownNames == {"not_a_tool", "get_document"}

RequestNames == ToolNames \cup UnknownNames

\* A key no schema declares.
ExtraKey == "bogus"

\* f with key k set to v (k need not be in DOMAIN f).
With(f, k, v) == [j \in DOMAIN f \cup {k} |-> IF j = k THEN v ELSE f[j]]

\* f without key k.
Without(f, k) == [j \in DOMAIN f \ {k} |-> f[j]]

\* The argument mappings sent for a registered name: the empty mapping, the
\* required fields well typed, and every mapping one change away from that: a required field
\* dropped, a required field mistyped, an optional field added (well typed,
\* mistyped, or an empty string), or an undeclared key added.
ArgVariants(name) ==
  IF name \notin ToolNames
  THEN {<<>>, [document_id |-> "str"]}
  ELSE LET sch  == inputSchema(name)
           req  == sch.required
           opt  == DOMAIN sch.properties \ req
           base == [k \in req |-> Sample(sch.properties[k])]
       IN  {base, <<>>}
           \cup {Without(base, k) : k \in req}
           \cup {With(base, k, WrongValue(sch.properties[k])) : k \in req}
           \cup {With(base, k, Sample(sch.properties[k])) : k \in opt}
           \cup {With(base, k, WrongValue(sch.properties[k])) : k \in opt}
           \cup {With(base, k, "") : k \in {j \in opt : sch.properties[j] = "string"}}
           \cup {With(base, ExtraKey, "str")}

\* Every (name, arguments) pair a request may carry.
AllRequests == UNION {{<<name, args>> : args \in ArgVariants(name)} : name \in RequestNames}

(***************************************************************************)
(* call_tool.                                                              *)
(***************************************************************************)
\* The parameters of h in signature order that args does not supply and that
\* have no default.
RECURSIVE MissingFrom(_, _, _)
MissingFrom(params, n, args) ==
  IF n = 0 THEN <<>>
  ELSE LET rest == MissingFrom(params, n - 1, args)
       IN  IF params[n] \in DOMAIN args THEN rest ELSE Append(rest, params[n])

\* A bug the binding could have: parameters without default are not required
\* (every parameter has a default).
BindErrorNoneRequired(h, args) ==
  LET unexpected == DOMAIN args \ Range(Signature(h).params)
  IN  IF unexpected # {}
      THEN Exc("TypeError", <<h[2], "() got an unexpected keyword argument ",
                              CHOOSE k \in unexpected : TRUE>>)
      ELSE NoExc

\* A bug the binding could have: the handler takes only its required
\* parameters, so an optional field the schema declares is no parameter.
BindErrorNoOptionals(h, args) ==
  LET sig        == Signature(h)
      unexpected == DOMAIN args \ {sig.params[i] : i \in 1..sig.nreq}
      missing    == MissingFrom(sig.params, sig.nreq, args)
  IN  IF unexpected # {}
      THEN Exc("TypeError", <<h[2], "() got an unexpected keyword argument ",
                              CHOOSE k \in unexpected : TRUE>>)
      ELSE IF missing # <<>>
      THEN Exc("TypeError", <<h[2], "() missing required positional arguments: ">>
                            \o missing)
      ELSE NoExc

\* A bug the binding could have: the handlers take **kwargs, so a keyword that
\* is no parameter is accepted and dropped.
BindErrorIgnoresExtra(h, args) ==
  LET sig     == Signature(h)
      missing == MissingFrom(sig.params, sig.nreq, args)
  IN  IF missing # <<>>
      THEN Exc("TypeError", <<h[2], "() missing required positional arguments: ">>
                            \o missing)
      ELSE NoExc

\* handler(**arguments): Python binds the keywords to the signature before
\* the body runs, and raises TypeError when a keyword is no parameter or a
\* parameter without default is not supplied.
BindError(h, args) ==
  LET sig        == Signature(h)
      unexpected == DOMAIN args \ Range(sig.params)
      missing    == MissingFrom(sig.params, sig.nreq, args)
  IN  IF unexpected # {}
      THEN Exc("TypeError", <<h[2], "() got an unexpected keyword argument ",
                              CHOOSE k \in unexpected : TRUE>>)
      ELSE IF missing # <<>>
      THEN Exc("TypeError", <<h[2], "() missing required positional arguments: ">>
                            \o missing)
      ELSE NoExc

\* The parameter values the handler body sees.
Bound(h, args) ==
  [k \in Range(Signature(h).params) |->
     IF k \in DOMAIN args THEN args[k] ELSE Default(h, k)]

\* Exception classes that derive from Exception (all the classes the handlers,
\* the client library and call_tool itself raise).
ExceptionClasses ==
  {"ValueError", "TypeError", "IndexError", "Exception", "HttpError", "OSError",
   "TimeoutError", "BuildError"}

\* A bug call_tool could have: "except (ValueError, HttpError)" style handling
\* that lets TypeError and the network's errors through.
call_tool_catches_few(e) == e.class \in {"ValueError", "Exception"}

\* line 1570: except Exception as e
call_tool_catches(e) == e.class \in ExceptionClasses

\* A bug the except clause could have: the envelope is built on top of what
\* the handler had produced so far.
EnvelopeWithPartial(e, name) == [error |-> e.text, tool |-> name, status |-> "partial"]

\* The response is an error envelope.
IsFailure(x) == "error" \in DOMAIN x

\* lines 1572-1575: the error envelope.
Envelope(e, name) == [error |-> e.text, tool |-> name]

\* line 1568: json.dumps(result) of the handler's dict.
ResultPayload(h) == [f \in ResultFields(h) |-> "value"]

\* The dict the handler returns: append_to_document reports the index it
\* inserted at (line 261).
Result(c) ==
  IF c.h = <<"GoogleDocsTools", "append_to_document">>
  THEN [ResultPayload(c.h) EXCEPT !["appended_at_index"] = c.calls[2].sent["end_index"]]
  ELSE ResultPayload(c.h)

\* An exception e reaches call_tool's try block; orig is the exception first
\* raised (e itself unless a handler re-raised it).
Raise(c, orig, e) ==
  IF call_tool_catches(e)
  THEN [c EXCEPT !.pc = "returned", !.raised = orig, !.response = Envelope(e, c.name)]
  ELSE [c EXCEPT !.pc = "escaped", !.raised = orig]

\* A bug a handler could have: the re-raised exception drops str(e).
HandlerRaiseNoText(c, e) ==
  IF e.class = "HttpError"
  THEN Raise(c, e, Exc("Exception", <<FailPrefix(c.h)>>))
  ELSE Raise(c, e, e)

\* The handler's "except HttpError as e: raise Exception(f"<prefix>{str(e)}")";
\* any other exception leaves the handler as it is.
HandlerRaise(c, e) ==
  IF e.class = "HttpError"
  THEN Raise(c, e, Exc("Exception", <<FailPrefix(c.h)>> \o e.text))
  ELSE Raise(c, e, e)

\* What the remote service (or the network under it) answers to one call.
HttpFailure == Exc("HttpError", <<"<HttpError 403 Forbidden>">>)
NetFailure == Exc("TimeoutError", <<"timed out">>)
RemoteOutcomes == {NoExc, HttpFailure, NetFailure}

\* googleapiclient.discovery.build(...) cannot construct the client.
BuildFailure == Exc("BuildError", <<"cannot build service">>)

\* MediaFileUpload cannot read the local file.
FileFailure == Exc("OSError", <<"No such file or directory">>)

\* A bug the service properties could have: the cached handle is not looked
\* at and every access builds a new one.
IssueCallNoCache(c, call, buildOk) ==
  LET f      == call.svc
      handle == [id |-> nBuild[f] + 1, creds |-> creds]
  IN  /\ nBuild' = [nBuild EXCEPT ![f] = @ + 1]
      /\ IF ~buildOk
         THEN /\ cur' = HandlerRaise(c, BuildFailure)
              /\ svc' = svc
         ELSE /\ cur' = [c EXCEPT !.pc = "remote",
                                  !.calls = Append(c.calls, call),
                                  !.via = Append(c.via, handle),
                                  !.built = c.built \cup {f}]
              /\ svc' = [svc EXCEPT ![f] = handle]

\* docs_service / sheets_service / drive_service (lines 102-121) followed by
\* the start of the remote call: when the family's attribute is None, build()
\* is called with self.creds and its result kept (a build() that raises keeps
\* nothing); the call then goes out through the family's handle.
IssueCall(c, call, buildOk) ==
  LET f      == call.svc
      cached == svc[f].id # 0
      handle == IF cached THEN svc[f] ELSE [id |-> nBuild[f] + 1, creds |-> creds]
  IN  /\ nBuild' = IF cached THEN nBuild ELSE [nBuild EXCEPT ![f] = @ + 1]
      /\ IF ~cached /\ ~buildOk
         THEN /\ cur' = HandlerRaise(c, BuildFailure)
              /\ svc' = svc
         ELSE /\ cur' = [c EXCEPT !.pc = "remote",
                                  !.calls = Append(c.calls, call),
                                  !.via = Append(c.via, handle),
                                  !.built = IF cached THEN c.built
                                            ELSE c.built \cup {f}]
              /\ svc' = [svc EXCEPT ![f] = handle]

\* A bug run() could have: an exception of authenticate() is caught and the
\* server serves all the same.
ServingAfterAttempt == apc[Main] \in {"returned", "raised"}

\* A bug run() could have: requests are served before authenticate() is done.
ServingEarly == TRUE

\* The server is past run()'s authenticate() and inside self.server.run().
Serving == apc[Main] = "returned"

\* The transport receives a request.
Arrive ==
  /\ server = "constructed"
  /\ nextId < MaxRequests
  /\ nextId' = nextId + 1
  /\ pending' = pending \cup {nextId + 1}
  /\ UNCHANGED <<svc, cur, nresp, nBuild>>
  /\ UNCHANGED authVars
  /\ UNCHANGED regVars

\* A bug the dispatch could have: the handler body runs on the arguments as
\* they are, without the binding having rejected anything.
invokeUnbound(c0, h, localOk, buildOk) ==
  LET c1 == [c0 EXCEPT !.h = h, !.invoked = TRUE]
      a  == Bound(h, c0.args)
  IN  IF PreError(h, a)
      THEN /\ cur' = HandlerRaise(c1, Exc("TypeError", <<"unsupported operand type(s)">>))
           /\ UNCHANGED <<svc, nBuild>>
      ELSE IF ReadsLocalFile(h) /\ ~localOk
      THEN /\ cur' = HandlerRaise(c1, FileFailure)
           /\ UNCHANGED <<svc, nBuild>>
      ELSE IssueCall(c1, RemoteCalls(h, a)[1], buildOk)

\* handler(**arguments) up to the handler's first remote call, or to the
\* exception that ends it: binding, local code, the service property.
invoke(c0, h, localOk, buildOk) ==
  IF BindError(h, c0.args) # NoExc
  THEN /\ cur' = Raise([c0 EXCEPT !.h = h], BindError(h, c0.args), BindError(h, c0.args))
       /\ UNCHANGED <<svc, nBuild>>
  ELSE LET c1 == [c0 EXCEPT !.h = h, !.invoked = TRUE]
           a  == Bound(h, c0.args)
       IN  IF PreError(h, a)
           THEN /\ cur' = HandlerRaise(c1, Exc("TypeError", <<"unsupported operand type(s)">>))
                /\ UNCHANGED <<svc, nBuild>>
           ELSE IF ReadsLocalFile(h) /\ ~localOk
           THEN /\ cur' = HandlerRaise(c1, FileFailure)
                /\ UNCHANGED <<svc, nBuild>>
           ELSE IssueCall(c1, RemoteCalls(h, a)[1], buildOk)

\* A bug call_tool could have: the final else falls back to a handler.
call_tool_fallback(r, name, args, localOk, buildOk) ==
  invoke([Idle EXCEPT !.id = r, !.name = name, !.args = args],
         IF call_tool_route(name) = NoHandler
         THEN <<"GoogleDriveTools", "list_drive_files">>
         ELSE call_tool_route(name),
         localOk, buildOk)

\* The body of call_tool(name, arguments) from its first line to its first
\* remote call, or to its return when it makes none.
call_tool(r, name, args, localOk, buildOk) ==
  LET h  == call_tool_route(name)
      c0 == [Idle EXCEPT !.id = r, !.name = name, !.args = args]
  IN  IF h = NoHandler
      THEN /\ cur' = Raise(c0, Exc("ValueError", <<"Unknown tool: ", name>>),
                           Exc("ValueError", <<"Unknown tool: ", name>>))
           /\ UNCHANGED <<svc, nBuild>>
      ELSE invoke(c0, h, localOk, buildOk)

\* A bug the handlers could have: the remote call is awaited, so the event
\* loop starts the next invocation while this one waits for its answer.
CallToolWhileWaiting(r) ==
  /\ Serving
  /\ cur.pc \in {"idle", "remote"}
  /\ r \in pending
  /\ \A q \in pending : r <= q
  /\ pending' = pending \ {r}
  /\ \E q \in AllRequests, localOk \in BOOLEAN, buildOk \in BOOLEAN :
       call_tool(r, q[1], q[2], localOk, buildOk)
  /\ UNCHANGED <<nextId, nresp>>
  /\ UNCHANGED authVars
  /\ UNCHANGED regVars

\* The event loop starts call_tool for the pending request that arrived
\* first (the tasks of one event loop start in the order the messages were
\* read); the request's name and arguments, and what the local file system
\* and build() do, are inputs.
CallTool(r) ==
  /\ Serving
  /\ cur.pc = "idle"
  /\ r \in pending
  /\ \A q \in pending : r <= q
  /\ pending' = pending \ {r}
  /\ \E q \in AllRequests, localOk \in BOOLEAN, buildOk \in BOOLEAN :
       call_tool(r, q[1], q[2], localOk, buildOk)
  /\ UNCHANGED <<nextId, nresp>>
  /\ UNCHANGED authVars
  /\ UNCHANGED regVars

\* A bug a handler could have: a failed remote call is issued once more.
RemoteFailedRetry(out) ==
  IF Len(cur.calls) < 3
  THEN IssueCall(cur, cur.calls[Len(cur.calls)], TRUE)
  ELSE /\ cur' = HandlerRaise(cur, out)
       /\ UNCHANGED <<svc, nBuild>>

\* The remote call in flight raised: the exception ends the handler (as the
\* Exception of its except clause when it is an HttpError) and no handler
\* code runs after it.
RemoteFailed(out) ==
  /\ cur' = HandlerRaise(cur, out)
  /\ UNCHANGED <<svc, nBuild>>

\* The remote call in flight returns or raises; the handler goes on to its
\* next remote call or to its return.
RemoteReturn(out) ==
  /\ cur.pc = "remote"
  /\ LET a     == Bound(cur.h, cur.args)
         calls == RemoteCalls(cur.h, a)
         k     == Len(cur.calls)
     IN  IF out # NoExc
         THEN RemoteFailed(out)
         ELSE \E resp \in Responses(cur.h, cur.calls[k]) :
                LET c1 == [cur EXCEPT !.got = Append(cur.got, resp)]
                IN  IF k < Len(calls)
                    THEN IF MidError(cur.h, resp)
                         THEN /\ cur' = HandlerRaise(c1, Exc("IndexError",
                                                     <<"list index out of range">>))
                              /\ UNCHANGED <<svc, nBuild>>
                         ELSE IssueCall(c1, NextCall(cur.h, calls[k + 1], resp), TRUE)
                    ELSE IF PostError(cur.h, a)
                    THEN /\ cur' = HandlerRaise(c1, Exc("TypeError",
                                                <<"unsupported operand type(s)">>))
                         /\ UNCHANGED <<svc, nBuild>>
                    ELSE /\ cur' = [c1 EXCEPT !.pc = "returned",
                                              !.response = Result(c1)]
                         /\ UNCHANGED <<svc, nBuild>>
  /\ UNCHANGED <<nextId, pending, nresp>>
  /\ UNCHANGED authVars
  /\ UNCHANGED regVars

\* A bug call_tool could have: after a failure the credential is dropped, so
\* that it is obtained anew.
DeliverDropsCredential ==
  /\ cur.pc = "returned"
  /\ nresp' = [nresp EXCEPT ![cur.id] = @ + 1]
  /\ cur' = Idle
  /\ creds' = IF IsFailure(cur.response) THEN 0 ELSE creds
  /\ UNCHANGED <<svc, nextId, pending, nBuild>>
  /\ UNCHANGED <<heap, tokenFile, credFile, issued, apc, aobj, nRefresh, nFlow,
                 file0, ret>>
  /\ UNCHANGED regVars

\* A bug call_tool could have: a tool that failed is taken out of the list
\* list_tools returns.
DeliverUnregisters ==
  /\ cur.pc = "returned"
  /\ nresp' = [nresp EXCEPT ![cur.id] = @ + 1]
  /\ cur' = Idle
  /\ catalog' = IF IsFailure(cur.response)
                THEN SelectSeq(catalog, LAMBDA n : n # cur.name)
                ELSE catalog
  /\ UNCHANGED server
  /\ UNCHANGED <<svc, nextId, pending, nBuild>>
  /\ UNCHANGED authVars

\* The protocol runtime writes call_tool's return value to the transport.
Deliver ==
  /\ cur.pc = "returned"
  /\ nresp' = [nresp EXCEPT ![cur.id] = @ + 1]
  /\ cur' = Idle
  /\ UNCHANGED <<svc, nextId, pending, nBuild>>
  /\ UNCHANGED authVars
  /\ UNCHANGED regVars

\* GoogleMCPServer.run(): authenticate(), then serve.
run == authenticate(Main)

\* An exception authenticate() raised leaves run() (line 1582), main() and
\* asyncio.run(main()), none of which catches it: the process ends.
run_raises ==
  /\ apc[Main] = "raised"
  /\ server = "constructed"
  /\ server' = "exited"
  /\ UNCHANGED catalog
  /\ UNCHANGED authVars
  /\ UNCHANGED serveVars

Next ==
  \/ run
  \/ run_raises
  \/ Arrive
  \/ \E r \in Requests : CallTool(r)
  \/ \E out \in RemoteOutcomes : RemoteReturn(out)
  \/ Deliver

Spec == Init /\ [][Next]_vars

(***************************************************************************)
(* The server over a time longer than an access token lives.               *)
(***************************************************************************)
\* The credential record or object of token t, once the clock is past the
\* expiry recorded with t.
Expired(o, t) == IF o.token = t THEN [o EXCEPT !.expired = TRUE] ELSE o

\* The clock passes the expiry of the access token self.creds holds: every
\* copy of that token, in memory and in the token file, now counts as expired.
Expire ==
  /\ Serving
  /\ creds # 0
  /\ ~heap[creds].expired
  /\ LET t == heap[creds].token
     IN  /\ heap' = [i \in DOMAIN heap |-> Expired(heap[i], t)]
         /\ tokenFile' = IF tokenFile.data = <<>> THEN tokenFile
                         ELSE FileWith(Expired(tokenFile.data[1], t))
  /\ UNCHANGED <<creds, credFile, issued, apc, aobj, nRefresh, nFlow, file0, ret>>
  /\ UNCHANGED serveVars
  /\ UNCHANGED regVars

NextLong == Next \/ Expire

SpecLong == Init /\ [][NextLong]_vars

(***************************************************************************)
(* GoogleAPIClient used by an owner that calls authenticate() again while  *)
(* the handles it has handed out are in use.                               *)
(***************************************************************************)
MaxObjects == 2

\* authenticate() is called again, between two tool invocations.
Reauthenticate ==
  /\ Serving
  /\ cur.pc = "idle"
  /\ Len(heap) < MaxObjects
  /\ Goto(Main, "start")
  /\ UNCHANGED <<creds, heap, tokenFile, credFile, issued, aobj, nRefresh,
                 nFlow, file0, ret>>
  /\ UNCHANGED serveVars
  /\ UNCHANGED regVars

NextClient == NextLong \/ Reauthenticate

SpecClient == Init /\ [][NextClient]_vars

(***************************************************************************)
(* Construction: GoogleMCPServer.__init__ and _register_tools, for a       *)
(* descriptor list given as input.                                         *)
(***************************************************************************)
MaxCatalog == 3

\* The names the descriptors of an input list carry.
CatalogNames == {"get_document_content", "read_sheet_data", "list_drive_files"}

\* The descriptor lists of one to MaxCatalog entries.
Catalogs == UNION {[1..n -> CatalogNames] : n \in 1..MaxCatalog}

InitRegister ==
  /\ InitClient
  /\ apc = [c \in Callers |-> "off"]
  /\ catalog \in Catalogs
  /\ server = "none"

\* _register_tools(): the decorators self.server.list_tools() and
\* self.server.call_tool() store the two closures; the descriptor list is a
\* literal inside list_tools, built when a client asks for it, and nothing
\* compares the names of its entries.
register_tools ==
  /\ server = "none"
  /\ server' = "constructed"
  /\ UNCHANGED catalog
  /\ UNCHANGED authVars
  /\ UNCHANGED serveVars

NextRegister == register_tools

SpecRegister == InitRegister /\ [][NextRegister]_vars

(***************************************************************************)
(* Properties of call_tool.                                                *)
(***************************************************************************)
IsEnvelope(x) == DOMAIN x = {"error", "tool"}

\* Request r has been dispatched and its call_tool invocation has ended.
Finished(r) == r <= nextId /\ r \notin pending /\ cur.id # r

\* C1: every request yields a well-formed response: no exception leaves
\* call_tool; what call_tool returns is either the error envelope {error, tool}
\* naming the request's tool or the result dict of the handler that ran; and
\* every request whose invocation has ended got exactly one response.
C1_WellFormedResponse ==
  /\ cur.pc # "escaped"
  /\ cur.pc = "returned" =>
       \/ IsEnvelope(cur.response) /\ cur.response.tool = cur.name
       \/ /\ cur.invoked
          /\ cur.raised = NoExc
          /\ DOMAIN cur.response = ResultFields(cur.h)
  /\ \A r \in Requests : nresp[r] = IF Finished(r) THEN 1 ELSE 0

\* A handler ran, its remote call raised something that is no HttpError, and
\* call_tool returned the envelope.
C1_Witness ==
  /\ cur.pc = "returned"
  /\ cur.invoked
  /\ cur.raised = NetFailure
  /\ IsEnvelope(cur.response)

\* C2: a name outside the catalog yields {error: "Unknown tool: <name>",
\* tool: <name>}; no handler runs, no service handle is built and no remote
\* call is issued for it.
C2_UnknownTool ==
  (cur.pc # "idle" /\ cur.name \notin ToolNames) =>
     /\ cur.pc = "returned"
     /\ IsEnvelope(cur.response)
     /\ cur.response.error = <<"Unknown tool: ", cur.name>>
     /\ cur.response.tool = cur.name
     /\ ~cur.invoked
     /\ cur.h = NoHandler
     /\ cur.calls = <<>>
     /\ cur.built = {}

C2_Witness ==
  /\ cur.pc = "returned"
  /\ cur.name = "not_a_tool"
  /\ cur.response.error = <<"Unknown tool: ", "not_a_tool">>

\* The text pieces Python's argument binding puts into its TypeError.
BindingTexts ==
  {"() missing required positional arguments: ",
   "() got an unexpected keyword argument "}

\* C3: for a registered tool, arguments lacking a field of the schema's
\* 'required' list yield the error envelope of an argument failure for that
\* tool; the handler body never runs and no remote call is issued.
C3_MissingRequired ==
  (/\ cur.pc # "idle"
   /\ cur.name \in ToolNames
   /\ ~(inputSchema(cur.name).required \subseteq DOMAIN cur.args)) =>
     /\ cur.pc = "returned"
     /\ IsEnvelope(cur.response)
     /\ cur.response.tool = cur.name
     /\ cur.raised.class = "TypeError"
     /\ cur.response.error[2] \in BindingTexts
     /\ ~cur.invoked
     /\ cur.calls = <<>>
     /\ cur.built = {}

\* append_to_document with {} has been answered.
C3_Witness ==
  /\ cur.pc = "returned"
  /\ cur.name = "append_to_document"
  /\ cur.args = <<>>
  /\ IsEnvelope(cur.response)

\* The declared properties whose value in args has another JSON type.
Mistyped(name, args) ==
  {k \in DOMAIN args \cap DOMAIN inputSchema(name).properties :
     JsonType(args[k]) # inputSchema(name).properties[k]}

\* C4 (as claimed): for a registered tool, an argument of the wrong primitive
\* type yields a failure, the handler is never invoked and the mistyped value
\* reaches no remote call.
C4_WrongTypeRejected ==
  (/\ cur.pc # "idle"
   /\ cur.name \in ToolNames
   /\ Mistyped(cur.name, cur.args) # {}) =>
     /\ ~cur.invoked
     /\ \A i \in 1..Len(cur.calls) :
          DOMAIN cur.calls[i].sent \cap Mistyped(cur.name, cur.args) = {}

\* s ends with t.
EndsWith(s, t) ==
  Len(t) <= Len(s) /\ SubSeq(s, Len(s) - Len(t) + 1, Len(s)) = t

\* C5: when a handler's remote call fails with a remote-service error
\* (HttpError), call_tool returns {error, tool} with tool the dispatched name
\* and error carrying the underlying error text; nothing escapes.
C5_RemoteErrorEnvelope ==
  (cur.pc \notin {"idle", "remote"} /\ cur.raised.class = "HttpError") =>
     /\ cur.pc = "returned"
     /\ IsEnvelope(cur.response)
     /\ cur.response.tool = cur.name
     /\ EndsWith(cur.response.error, cur.raised.text)
     /\ cur.response.error[1] = FailPrefix(cur.h)

\* update_sheet_data with its three required arguments failed remotely.
C5_Witness ==
  /\ cur.pc = "returned"
  /\ cur.name = "update_sheet_data"
  /\ DOMAIN cur.args = {"spreadsheet_id", "range_name", "values"}
  /\ Mistyped(cur.name, cur.args) = {}
  /\ cur.raised = HttpFailure
  /\ cur.response.tool = "update_sheet_data"

\* args conforms to the schema declared for name, as JSON Schema reads it:
\* the required fields are present and every declared property has its type;
\* the schemas do not forbid further keys.
Conforms(name, args) ==
  /\ inputSchema(name).required \subseteq DOMAIN args
  /\ Mistyped(name, args) = {}

\* args conforms and has no key the schema does not declare.
ConformsDeclaredOnly(name, args) ==
  /\ Conforms(name, args)
  /\ DOMAIN args \subseteq DOMAIN inputSchema(name).properties

\* list_tools and call_tool know the same names, and each name is routed to
\* the handler method of that name.
SameCatalog ==
  /\ call_tool_names = ToolNames
  /\ \A n \in ToolNames : call_tool_route(n) # NoHandler /\ call_tool_route(n)[2] = n
  /\ \A n \in RequestNames \ ToolNames : call_tool_route(n) = NoHandler

\* The invocation reached the handler of its tool and ended, if it ended, in
\* the handler's result or in an error the handler body raised.
ReachedHandler ==
  /\ cur.pc # "escaped"
  /\ cur.invoked
  /\ cur.h[2] = cur.name
  /\ cur.raised.class \notin {"ValueError", "TypeError"}
  /\ cur.pc = "returned" =>
       IF cur.raised = NoExc
       THEN DOMAIN cur.response = ResultFields(cur.h)
       ELSE IsEnvelope(cur.response) /\ cur.response.tool = cur.name

\* C6 (as claimed): the advertised names are the routed names, and for every
\* advertised name arguments that conform to the declared schema reach the
\* tool's handler and yield its result or a handler error, never an unknown
\* tool or argument failure.
C6_ConformingReachesHandler ==
  /\ SameCatalog
  /\ (cur.pc # "idle" /\ cur.name \in ToolNames /\ Conforms(cur.name, cur.args))
       => ReachedHandler

\* C6 (amended): the same for conforming arguments that carry no key outside
\* the schema's properties.
C6_DeclaredKeysReachHandler ==
  /\ SameCatalog
  /\ (/\ cur.pc # "idle"
      /\ cur.name \in ToolNames
      /\ ConformsDeclaredOnly(cur.name, cur.args))
       => ReachedHandler

\* A conforming request with an optional field present returned its result.
C6_Witness ==
  /\ cur.pc = "returned"
  /\ cur.name = "format_document_text"
  /\ ConformsDeclaredOnly(cur.name, cur.args)
  /\ "bold" \in DOMAIN cur.args
  /\ cur.raised = NoExc
  /\ DOMAIN cur.response = ResultFields(cur.h)

(***************************************************************************)
(* Properties of authenticate().                                           *)
(***************************************************************************)
\* The token file held an expired credential with a refresh token.
StaleWithRefreshToken(f) ==
  f.data # <<>> /\ f.data[1].expired /\ f.data[1].refresh_token

\* The callers whose refresh or authorization exchange is in flight.
InFlight == {c \in Callers : apc[c] \in {"refreshing", "flowing"}}

\* C7 (as claimed): N concurrent authenticate() calls on a stale stored
\* credential with a refresh token make exactly one refresh exchange, and all
\* N calls return with the same refreshed token.
C7_SingleRefresh ==
  (StaleWithRefreshToken(file0) /\ \A c \in Threads : apc[c] = "returned") =>
     /\ nRefresh = 1
     /\ \A c, d \in Threads : ret[c] = ret[d]

\* C8 (as claimed): at most one refresh or authorization exchange is in
\* flight at any time.
C8_OneExchangeInFlight == Cardinality(InFlight) <= 1

\* The caller's authenticate() has ended after an exchange of its own failed.
ExchangeFailed(c) == apc[c] = "raised" /\ nRefresh + nFlow > 0

\* C9 (as claimed): when run()'s refresh or authorization exchange fails,
\* authenticate made one attempt, raised, left self.creds as it was before the
\* call (None) and wrote nothing to the token file.
C9_FailureLeavesCredential ==
  ExchangeFailed(Main) =>
     /\ nRefresh + nFlow = 1
     /\ creds = 0
     /\ tokenFile = file0

\* The credential is not valid and cannot be refreshed: none is loaded, or the
\* loaded one has no refresh token.
Unrecoverable == creds = 0 \/ (~Valid(heap[creds]) /\ ~heap[creds].refresh)

\* C10: past the load, with a credential that is not valid and cannot be
\* refreshed and without a client secrets file, authenticate only raises: it
\* starts no authorization flow and no refresh, and does not write the token file.
C10_NoCredentialsFile ==
  (/\ apc[Main] \notin {"start", "load", "check"}
   /\ Unrecoverable
   /\ ~credFile) =>
     /\ apc[Main] \in {"branch", "raised"}
     /\ nFlow = 0
     /\ nRefresh = 0
     /\ tokenFile = file0

\* authenticate raised for want of a client secrets file, with an expired
\* credential that has no refresh token loaded.
C10_Witness ==
  /\ apc[Main] = "raised"
  /\ ~credFile
  /\ creds # 0
  /\ Unrecoverable
  /\ nFlow = 0

(***************************************************************************)
(* Persistence of the credential.                                          *)
(***************************************************************************)
\* run()'s authenticate() has returned normally.
Authenticated == apc[Main] = "returned"

\* Loading the token file now yields the credential self.creds holds.
ReloadEqualsCreds ==
  /\ creds # 0
  /\ tokenFile.data # <<>>
  /\ FromFile(tokenFile.data[1]) = heap[creds]

NoUsableCredential(f) ==
  f.data = <<>> \/ (f.data[1].expired /\ ~f.data[1].refresh_token)

\* run()'s authenticate() is past the choice between refresh and flow.
PastBranch == apc[Main] \in {"refreshing", "flowing", "save", "write", "returned", "raised"}

\* C12: a stale stored credential with a refresh token leads to one refresh
\* exchange and never to the interactive flow; no usable credential together
\* with a client secrets file leads to exactly one interactive flow and no
\* refresh, and the flow's credential is in the token file on return.
C12_RefreshOrFlow ==
  /\ StaleWithRefreshToken(file0) =>
       /\ nFlow = 0
       /\ PastBranch => nRefresh = 1
  /\ (NoUsableCredential(file0) /\ credFile) =>
       /\ nRefresh = 0
       /\ PastBranch => nFlow = 1
       /\ Authenticated =>
            /\ heap[creds].token = issued
            /\ issued = 2
            /\ tokenFile = FileWith(ToJson(heap[creds]))

\* authenticate has returned after the interactive flow, taken because the
\* stored credential was expired and had no refresh token.
C12_Witness ==
  /\ Authenticated
  /\ file0.data # <<>>
  /\ NoUsableCredential(file0)
  /\ nFlow = 1
  /\ tokenFile # file0

(***************************************************************************)
(* Properties of construction.                                             *)
(***************************************************************************)
\* Two descriptors of the list share a name.
HasDuplicate(cat) == \E i, j \in 1..Len(cat) : i # j /\ cat[i] = cat[j]

C14_BuildOncePerFamily == \A f \in Families : nBuild[f] <= 1

\* Every remote call of the running invocation went out through the handle
\* cached for its family.
CallsViaCachedHandle ==
  \A i \in 1..Len(cur.calls) : cur.via[i] = svc[cur.calls[i].svc]

\* One step of the program, as far as the handles go: a cached handle is never
\* replaced, build() is called only for a family without handle, and a handle
\* appears only for the family of the call that is going out.
HandleStep ==
  \A f \in Families :
     /\ svc[f].id # 0 => (svc'[f] = svc[f] /\ nBuild'[f] = nBuild[f])
     /\ svc'[f] # svc[f] =>
          /\ nBuild'[f] = nBuild[f] + 1
          /\ cur'.calls # <<>>
          /\ cur'.calls[Len(cur'.calls)].svc = f
     /\ nBuild'[f] # nBuild[f] =>
          \A g \in Families \ {f} : nBuild'[g] = nBuild[g] /\ svc'[g] = svc[g]

\* C14 (amended): per family a handle is constructed lazily, at most once, on
\* an access to that family, and then kept: build() is called only while the
\* family has no handle (again after a build() that raised), every call goes
\* out through the family's cached handle, and no access builds or replaces
\* another family's handle.
C14_HandleCachedPerFamily == []CallsViaCachedHandle /\ [][HandleStep]_vars

\* An invocation's call is going out through a handle an earlier invocation
\* built, while another family still has none.
C14_Witness ==
  /\ cur.pc = "remote"
  /\ cur.built = {}
  /\ cur.via[1].id = 1
  /\ nBuild[cur.calls[1].svc] = 1
  /\ \E g \in Families : svc[g].id = 0 /\ nBuild[g] = 0

\* C15 (as claimed): no remote call goes out through a handle bound to a
\* credential that has been superseded: the credential of the handle of every
\* call of the running invocation carries the token self.creds carries.
C15_NoCallThroughStaleHandle ==
  \A i \in 1..Len(cur.calls) :
     /\ cur.via[i].creds # 0
     /\ heap[cur.via[i].creds].token = heap[creds].token

\* C19 (as claimed): build() is never called with an absent, expired or
\* otherwise invalid credential.
C19_BuildFromValidCredential ==
  [][\A f \in Families :
        nBuild'[f] # nBuild[f] => (creds # 0 /\ Valid(heap[creds]))]_vars

(***************************************************************************)
(* Properties of the running server.                                       *)
(***************************************************************************)
\* C16 (as claimed): a failure of authenticate() does not end the process.
C16_AuthFailureSurvived == server # "exited"

\* C17 (as claimed): while an invocation is blocked in a remote call, a
\* request that is waiting can be dispatched.
C17_IndependentProgress ==
  (cur.pc = "remote" /\ pending # {}) => ENABLED (\E r \in Requests : CallTool(r))

\* A caller is inside authenticate().
AuthBusy == \E c \in Callers : apc[c] \notin {"off", "returned", "raised"}

ValidStored(f) == f.data # <<>> /\ Valid(FromFile(f.data[1]))

\* C20: with a valid credential in the token file, authenticate makes no
\* refresh exchange, no authorization flow and no write to the token file,
\* does not raise, and from the load on self.creds is the loaded credential.
C20_ValidCredentialKept ==
  ValidStored(file0) =>
     /\ nRefresh = 0
     /\ nFlow = 0
     /\ tokenFile = file0
     /\ apc[Main] \in {"start", "load", "check", "returned"}
     /\ apc[Main] \in {"check", "returned"} =>
          /\ creds # 0
          /\ heap[creds] = FromFile(file0.data[1])

\* authenticate has returned with a valid stored credential that has no
\* refresh token.
C20_Witness ==
  /\ Authenticated
  /\ ValidStored(file0)
  /\ ~file0.data[1].refresh_token

(***************************************************************************)
(* Properties of one invocation.                                           *)
(***************************************************************************)
\* C21: within an invocation the handler body runs, and a remote call goes
\* out, only after the arguments have been bound to the handler's signature
\* without error (the validation call_tool performs); and the response is
\* formed only once the handler has returned or raised: while a remote call
\* is outstanding there is no response and no exception, and a result is
\* formed only after all the handler's remote calls.
C21_StepsOrdered ==
  /\ cur.calls # <<>> => cur.invoked
  /\ cur.invoked =>
       /\ cur.h = call_tool_route(cur.name)
       /\ cur.h # NoHandler
       /\ BindError(cur.h, cur.args) = NoExc
  /\ cur.response # <<>> => cur.pc = "returned"
  /\ cur.pc = "remote" => (cur.response = <<>> /\ cur.raised = NoExc)
  /\ (cur.pc = "returned" /\ ~IsEnvelope(cur.response)) =>
       /\ cur.invoked
       /\ Len(cur.got) = Len(cur.calls)
       /\ Len(cur.calls) = Len(RemoteCalls(cur.h, Bound(cur.h, cur.args)))

\* A handler with two remote calls has returned its result.
C21_Witness ==
  /\ cur.pc = "returned"
  /\ ~IsEnvelope(cur.response)
  /\ Len(cur.calls) = 2
  /\ cur.invoked

\* The remote call of the running invocation failed.
RemoteCallFailed == cur.raised.class \in {"HttpError", "TimeoutError"}

\* C22: no retry. The remote calls an invocation has issued are an initial
\* part of the calls its one handler issues when nothing fails, each issued
\* once; and once a remote call has failed the invocation is over: the failed
\* call is the last one issued and the response is the error envelope.
C22_NoRetry ==
  /\ cur.calls # <<>> =>
       LET calls == RemoteCalls(cur.h, Bound(cur.h, cur.args))
       IN  /\ Len(cur.calls) <= Len(calls)
           /\ \A i \in 1..Len(cur.calls) :
                /\ cur.calls[i].op = calls[i].op
                /\ cur.calls[i].svc = calls[i].svc
  /\ RemoteCallFailed =>
       /\ cur.pc = "returned"
       /\ IsEnvelope(cur.response)
       /\ Len(cur.got) = Len(cur.calls) - 1

\* move_drive_file's read of the parents failed: no update was issued.
C22_Witness ==
  /\ cur.h = <<"GoogleDriveTools", "move_drive_file">>
  /\ RemoteCallFailed
  /\ Len(cur.calls) = 1
  /\ cur.calls[1].op = "files.get"

\* C23: every failure response names the tool of the request it answers and
\* carries a message, and holds nothing else: a response with an 'error'
\* field has exactly the fields 'error' and 'tool', none of them a field of a
\* handler result, whatever the handler had done before it failed and
\* whatever other requests are waiting.
C23_FailureNamesToolOnly ==
  (cur.pc = "returned" /\ "error" \in DOMAIN cur.response) =>
     /\ DOMAIN cur.response = {"error", "tool"}
     /\ cur.response.tool = cur.name
     /\ cur.response.error # <<>>
     /\ cur.h # NoHandler => DOMAIN cur.response \cap ResultFields(cur.h) = {}
     /\ cur.raised # NoExc

\* append_to_document failed in its insert, after its read had succeeded,
\* while another request is waiting.
C23_Witness ==
  /\ cur.pc = "returned"
  /\ cur.h = <<"GoogleDocsTools", "append_to_document">>
  /\ Len(cur.calls) = 2
  /\ Len(cur.got) = 1
  /\ RemoteCallFailed
  /\ pending # {}
  /\ IsEnvelope(cur.response)

(***************************************************************************)
(* Frame of the tool invocations.                                          *)
(***************************************************************************)
\* A step of a tool invocation or of the transport: a request arrives, is
\* dispatched, a remote call returns, a response is written.
InvocationStep == cur' # cur \/ nresp' # nresp \/ pending' # pending

C25_CatalogImmutable ==
  /\ Len(catalog) = 25
  /\ ~HasDuplicate(catalog)
  /\ catalog = CatalogOf(list_tools)
  /\ \A i \in 1..Len(catalog) :
       /\ inputSchema(catalog[i]).properties = list_tools[i].properties
       /\ inputSchema(catalog[i]).required = list_tools[i].required
       /\ list_tools[i].required \subseteq DOMAIN list_tools[i].properties

\* The credential was refreshed at start-up, a request has been answered and
\* the running one has failed in a remote call.
C25_Witness ==
  /\ nRefresh = 1
  /\ \E r \in Requests : nresp[r] = 1
  /\ RemoteCallFailed
  /\ cur.name \in Range(catalog)

(***************************************************************************)
(* Start-up.                                                               *)
(***************************************************************************)
\* Some request has been dispatched: an invocation is running, a response
\* has been written, or build() has been called.
SomeDispatched ==
  \/ cur.pc # "idle"
  \/ \E r \in Requests : nresp[r] > 0
  \/ \E f \in Families : nBuild[f] > 0

\* C26: a request is dispatched only after run()'s authenticate() has
\* returned normally, with a credential in self.creds and no exchange in
\* progress; when authenticate() raises, no request has been or will be
\* dispatched, and the one step left to run() is to end with that error.
C26_StartupOrdering ==
  /\ SomeDispatched =>
       /\ apc[Main] = "returned"
       /\ creds # 0
       /\ InFlight = {}
       /\ server = "constructed"
  /\ apc[Main] = "raised" =>
       /\ ~SomeDispatched
       /\ ~ENABLED (\E r \in Requests : CallTool(r))
       /\ server = "constructed" => ENABLED run_raises
  /\ server = "exited" => apc[Main] = "raised"

\* authenticate() raised with a request already waiting on the transport,
\* and run() has ended.
C26_Witness ==
  /\ apc[Main] = "raised"
  /\ server = "exited"
  /\ pending # {}
  /\ ~SomeDispatched

(***************************************************************************)
(* Interleaving of invocations.                                            *)
(***************************************************************************)
\* C27: from the start of a handler to its return no other invocation runs a
\* step: while an invocation waits for a remote call, the invocation that
\* runs next is the same one, no request is dispatched and no response is
\* written; so the two remote calls of append_to_document and of
\* move_drive_file follow each other with no step of another invocation
\* between them.
C27_NoInterleaving ==
  [][cur.pc = "remote" =>
       /\ cur'.id = cur.id
       /\ cur'.name = cur.name
       /\ nresp' = nresp
       /\ pending \subseteq pending']_vars

\* move_drive_file has read the parents and its update is in flight, while
\* another request is waiting.
C27_Witness ==
  /\ cur.pc = "remote"
  /\ cur.h = <<"GoogleDriveTools", "move_drive_file">>
  /\ Len(cur.calls) = 2
  /\ pending # {}

(***************************************************************************)
(* Undeclared argument keys.                                               *)
(***************************************************************************)
\* The keys of args that are no parameter of the handler of a registered name.
NotParameters(name, args) == DOMAIN args \ Range(Signature(call_tool_route(name)).params)

\* C28: the parameters of every handler are the properties of its schema, and
\* dispatching a registered tool with a key that is no parameter of its
\* handler yields the error envelope for that tool, with the handler body
\* never run, no service built and no remote call issued, whatever the other
\* fields are.
C28_UndeclaredKeyRejected ==
  /\ \A name \in ToolNames :
       Range(Signature(call_tool_route(name)).params) = DOMAIN inputSchema(name).properties
  /\ (/\ cur.pc # "idle"
      /\ cur.name \in ToolNames
      /\ NotParameters(cur.name, cur.args) # {}) =>
        /\ cur.pc = "returned"
        /\ IsEnvelope(cur.response)
        /\ cur.response.tool = cur.name
        /\ cur.raised.class = "TypeError"
        /\ cur.response.error[2] = "() got an unexpected keyword argument "
        /\ ~cur.invoked
        /\ cur.calls = <<>>
        /\ cur.built = {}

\* move_drive_file with its required fields well typed and one undeclared
\* key has been answered.
C28_Witness ==
  /\ cur.pc = "returned"
  /\ cur.name = "move_drive_file"
  /\ inputSchema(cur.name).required \subseteq DOMAIN cur.args
  /\ Mistyped(cur.name, cur.args) = {}
  /\ ExtraKey \in DOMAIN cur.args
  /\ IsEnvelope(cur.response)

(***************************************************************************)
(* move_drive_file.                                                        *)
(***************************************************************************)
\* The body of move_drive_file is running or has run.
Moving == cur.invoked /\ cur.h = <<"GoogleDriveTools", "move_drive_file">>

\* line 1037: 'if not old_folder_id' is false.
OldFolderGiven == IsTrue(Bound(cur.h, cur.args)["old_folder_id"])

\* C29: the remote calls of move_drive_file, in order: with old_folder_id
\* given, no read and at most one call, files.update with removeParents equal
\* to old_folder_id; with old_folder_id absent or empty, first one files.get
\* and then, only after it answered, one files.update whose removeParents is
\* the comma-joined list of the parents it answered; a read that fails ends
\* the handler with the update never issued; a move that returns normally
\* has issued its update exactly once.
C29_MoveCallOrder ==
  Moving =>
    /\ OldFolderGiven =>
         /\ Len(cur.calls) <= 1
         /\ \A i \in 1..Len(cur.calls) :
              /\ cur.calls[i].op = "files.update"
              /\ cur.calls[i].sent["old_folder_id"] = cur.args["old_folder_id"]
         /\ cur.got \in {<<>>, <<Opaque>>}
    /\ ~OldFolderGiven =>
         /\ Len(cur.calls) <= 2
         /\ Len(cur.calls) >= 1 => cur.calls[1].op = "files.get"
         /\ Len(cur.calls) = 2 =>
              /\ cur.calls[2].op = "files.update"
              /\ cur.got # <<>>
              /\ cur.got[1] \in Files
              /\ cur.calls[2].sent["old_folder_id"] = Join(",", parents(cur.got[1]))
         /\ (cur.pc # "remote" /\ cur.got = <<>>) =>
              /\ cur.raised # NoExc
              /\ \A i \in 1..Len(cur.calls) : cur.calls[i].op # "files.update"
    /\ (cur.pc = "returned" /\ cur.raised = NoExc) =>
         /\ Len(cur.calls) = (IF OldFolderGiven THEN 1 ELSE 2)
         /\ cur.calls[Len(cur.calls)].op = "files.update"

\* A move without old_folder_id of a file with two parents has returned.
C29_Witness ==
  /\ Moving
  /\ cur.pc = "returned"
  /\ cur.raised = NoExc
  /\ ~OldFolderGiven
  /\ Len(cur.calls) = 2
  /\ cur.calls[2].sent["old_folder_id"] = <<"p1", ",", "p2">>

(***************************************************************************)
(* append_to_document.                                                     *)
(***************************************************************************)
\* The body of append_to_document is running or has run.
Appending == cur.invoked /\ cur.h = <<"GoogleDocsTools", "append_to_document">>

\* C30: append_to_document reads the document once, first; its second and
\* last call is the insert, at (endIndex of the last element of the body's
\* content list) - 1, with endIndex taken as 1 when that element has none
\* (the body or the list missing counts as one element without endIndex);
\* the dict it returns reports that index as appended_at_index; and when the
\* content list is present and empty no insert is issued and the request is
\* answered with the error envelope.
C30_AppendIndex ==
  Appending =>
    /\ Len(cur.calls) <= 2
    /\ Len(cur.calls) >= 1 => cur.calls[1].op = "documents.get"
    /\ Len(cur.calls) = 2 =>
         /\ cur.got # <<>>
         /\ cur.got[1] \in Documents
         /\ LET doc      == cur.got[1]
                list     == IF doc.body /\ doc.list # <<>> THEN doc.list[1] ELSE << <<>> >>
                last     == list[Len(list)]
                endIndex == IF last = <<>> THEN 1 ELSE last[1]
            IN  /\ list # <<>>
                /\ cur.calls[2].op = "documents.batchUpdate"
                /\ cur.calls[2].sent["end_index"] = endIndex - 1
                /\ (cur.pc = "returned" /\ cur.raised = NoExc) =>
                     cur.response["appended_at_index"] = endIndex - 1
    /\ (cur.pc = "returned" /\ cur.raised = NoExc) => Len(cur.calls) = 2
    /\ (cur.got # <<>> /\ cur.got[1] = Response("document", TRUE, << <<>> >>)) =>
         /\ Len(cur.calls) = 1
         /\ cur.pc = "returned"
         /\ cur.raised.class = "IndexError"
         /\ IsEnvelope(cur.response)
         /\ cur.response.tool = cur.name

\* An append to a document whose last element ends at 7 has returned, the
\* text inserted at 6.
C30_Witness ==
  /\ Appending
  /\ cur.pc = "returned"
  /\ cur.raised = NoExc
  /\ cur.got[1] = Response("document", TRUE, << << <<1>>, <<7>> >> >>)
  /\ cur.calls[2].sent["end_index"] = 6
  /\ cur.response["appended_at_index"] = 6

====
